---------------------------- MODULE Spec2Model ----------------------------
(***************************************************************************)
(* Model of src/src/os_release.rs: the OsRelease record, the line loop of  *)
(* OsRelease::from_iter (the parse_os_release_line! macro followed by the  *)
(* generic `extra` pattern) and the two file wrappers OsRelease::new and   *)
(* OsRelease::from_file.                                                   *)
(*                                                                         *)
(* A string is a sequence of one-character strings, so that the regular    *)
(* expressions of the source are matched character by character.           *)
(***************************************************************************)
EXTENDS Integers, Sequences, FiniteSets

VARIABLES
    pc,          \* position of the running call
    os_release,  \* the record under construction (`let mut os_release`)
    seen,        \* the lines the iterator has yielded so far, in order
    result,      \* what the call returned: "none" | "Ok" | "Err"
    opened,      \* whether File::open succeeded
    readErrors   \* number of Err items BufRead::lines() has yielded

vars == <<pc, os_release, seen, result, opened, readErrors>>

\* Longest line sequence handed to from_iter / longest file read.
MaxLines == 2

\* Most failed reads of one file that are explored.
MaxReadErrors == 2

---------------------------------------------------------------------------
(* Characters *)

Quote == "\""

Upper ==
    {"A","B","C","D","E","F","G","H","I","J","K","L","M",
     "N","O","P","Q","R","S","T","U","V","W","X","Y","Z"}

Lower ==
    {"a","b","c","d","e","f","g","h","i","j","k","l","m",
     "n","o","p","q","r","s","t","u","v","w","x","y","z"}

Digit == {"0","1","2","3","4","5","6","7","8","9"}

\* \w of the regex crate, restricted to ASCII
IsWordChar(c) == c \in Upper \cup Lower \cup Digit \cup {"_"}

---------------------------------------------------------------------------
(* The record *)

K_NAME               == <<"N","A","M","E">>
K_VERSION            == <<"V","E","R","S","I","O","N">>
K_ID                 == <<"I","D">>
K_ID_LIKE            == <<"I","D","_","L","I","K","E">>
K_PRETTY_NAME        == <<"P","R","E","T","T","Y","_","N","A","M","E">>
K_VERSION_ID         == <<"V","E","R","S","I","O","N","_","I","D">>
K_HOME_URL           == <<"H","O","M","E","_","U","R","L">>
K_SUPPORT_URL        == <<"S","U","P","P","O","R","T","_","U","R","L">>
K_BUG_REPORT_URL     == <<"B","U","G","_","R","E","P","O","R","T","_","U","R","L">>
K_PRIVACY_POLICY_URL == <<"P","R","I","V","A","C","Y","_","P","O","L","I","C","Y","_","U","R","L">>
K_VERSION_CODENAME   == <<"V","E","R","S","I","O","N","_","C","O","D","E","N","A","M","E">>

\* The (regex key, field) pairs of the macro call, in the order they are tried.
Rules ==
    << [key |-> K_NAME,               field |-> "name"],
       [key |-> K_VERSION,            field |-> "version"],
       [key |-> K_ID,                 field |-> "id"],
       [key |-> K_ID_LIKE,            field |-> "id_like"],
       [key |-> K_PRETTY_NAME,        field |-> "pretty_name"],
       [key |-> K_VERSION_ID,         field |-> "version_id"],
       [key |-> K_HOME_URL,           field |-> "home_url"],
       [key |-> K_SUPPORT_URL,        field |-> "support_url"],
       [key |-> K_BUG_REPORT_URL,     field |-> "bug_report_url"],
       [key |-> K_PRIVACY_POLICY_URL, field |-> "privacy_policy_url"],
       [key |-> K_VERSION_CODENAME,   field |-> "version_codename"] >>

Fields == { Rules[i].field : i \in DOMAIN Rules }

RecognizedKeys == { Rules[i].key : i \in DOMAIN Rules }

\* #[derive(Default)]: every String empty, the BTreeMap empty
Default ==
    [ bug_report_url |-> <<>>, home_url |-> <<>>, id_like |-> <<>>, id |-> <<>>,
      name |-> <<>>, pretty_name |-> <<>>, privacy_policy_url |-> <<>>,
      support_url |-> <<>>, version_codename |-> <<>>, version_id |-> <<>>,
      version |-> <<>>, extra |-> [k \in {} |-> <<>>] ]

\* Variant of MapInsert: entry(k).or_insert(v), which keeps an existing value
MapInsert_KeepExisting(m, k, v) ==
    [x \in (DOMAIN m) \cup {k} |-> IF x \in DOMAIN m THEN m[x] ELSE v]

\* BTreeMap::insert: add the key or overwrite its value
MapInsert(m, k, v) ==
    [x \in (DOMAIN m) \cup {k} |-> IF x = k THEN v ELSE m[x]]

---------------------------------------------------------------------------
(* The regular expressions *)

NoMatch == [some |-> FALSE]

\* Variant of NonQuoteRun: the class . in place of [^"], which runs to the
\* end of the line
NonQuoteRun_ToEnd(line, a) == Len(line) - a + 1

\* Length of the longest run of non-quote characters of line starting at a:
\* what the greedy [^"]+ consumes.
NonQuoteRun(line, a) ==
    LET ok(n) == \A i \in a..(a + n - 1) : line[i] # Quote
        N == { n \in 0..(Len(line) - a + 1) : ok(n) }
    IN  CHOOSE n \in N : \A m \in N : m <= n

\* Variant of ValueAt: ([^"]*) in place of ([^"]+), which accepts an empty value
ValueAt_AllowEmpty(line, a, anchored) ==
    LET n  == NonQuoteRun(line, a)
        e  == a + n
        e2 == IF e <= Len(line) /\ line[e] = Quote THEN e + 1 ELSE e
    IN  IF anchored /\ e2 # Len(line) + 1 THEN NoMatch
        ELSE [some |-> TRUE, value |-> SubSeq(line, a, e - 1)]

\* ([^"]+)"? at position a, followed by $ when anchored.  The run is taken
\* greedily; a shorter run leaves a non-quote character next, which "? skips
\* and $ rejects, so backtracking into the run never helps.
ValueAt(line, a, anchored) ==
    LET n  == NonQuoteRun(line, a)
        e  == a + n
        e2 == IF e <= Len(line) /\ line[e] = Quote THEN e + 1 ELSE e
    IN  IF n = 0 THEN NoMatch
        ELSE IF anchored /\ e2 # Len(line) + 1 THEN NoMatch
        ELSE [some |-> TRUE, value |-> SubSeq(line, a, e - 1)]

\* Variant of QuotedValueAt: the pattern without its leading "?
QuotedValueAt_NoOpeningQuote(line, from, anchored) ==
    ValueAt(line, from, anchored)

\* "?([^"]+)"? at position from: the opening quote is taken when present,
\* and given back if the rest then fails.
QuotedValueAt(line, from, anchored) ==
    IF from <= Len(line) /\ line[from] = Quote
    THEN LET r == ValueAt(line, from + 1, anchored)
         IN  IF r.some THEN r ELSE ValueAt(line, from, anchored)
    ELSE ValueAt(line, from, anchored)

\* Regex::new(r#"^KEY="?([^"]+)"?$"#).captures(line), capture group 1
KeyRegex(key, line) ==
    LET p == Len(key) + 1
    IN  IF Len(line) >= p /\ SubSeq(line, 1, p - 1) = key /\ line[p] = "="
        THEN QuotedValueAt(line, p + 1, TRUE)
        ELSE NoMatch

\* (\w+)="?([^"]+)"? tried at start position s: \w+ greedy, shorter runs next
ExtraRegexAt(line, s) ==
    LET W == { k \in 1..(Len(line) - s + 1) :
                 \A i \in s..(s + k - 1) : IsWordChar(line[i]) }
        M == { k \in W : /\ s + k <= Len(line)
                         /\ line[s + k] = "="
                         /\ QuotedValueAt(line, s + k + 1, FALSE).some }
    IN  IF M = {} THEN NoMatch
        ELSE LET k == CHOOSE k \in M : \A m \in M : m <= k
             IN  [some  |-> TRUE,
                  key   |-> SubSeq(line, s, s + k - 1),
                  value |-> QuotedValueAt(line, s + k + 1, FALSE).value]

\* Regex::new(r#"(\w+)="?([^"]+)"?"#).captures(line): unanchored, so the
\* leftmost start position that matches wins
ExtraRegex(line) ==
    LET S == { s \in 1..Len(line) : ExtraRegexAt(line, s).some }
    IN  IF S = {} THEN NoMatch
        ELSE ExtraRegexAt(line, CHOOSE s \in S : \A t \in S : s <= t)

---------------------------------------------------------------------------
(* One iteration of `for line in lines` *)

\* Variant of ProcessLine: a field that is already set is not assigned again
ProcessLine_KeepFirst(r, line) ==
    LET hit == { i \in DOMAIN Rules : KeyRegex(Rules[i].key, line).some }
    IN  IF hit # {}
        THEN LET i == CHOOSE i \in hit : \A j \in hit : i <= j
             IN  IF r[Rules[i].field] = <<>>
                 THEN [r EXCEPT ![Rules[i].field] = KeyRegex(Rules[i].key, line).value]
                 ELSE r
        ELSE LET cap == ExtraRegex(line)
             IN  IF cap.some
                 THEN [r EXCEPT !.extra = MapInsert(r.extra, cap.key, cap.value)]
                 ELSE r

\* Variant of ProcessLine: the macro without its `continue`, so that a line
\* that set a field goes on to the generic regex
ProcessLine_NoContinue(r, line) ==
    LET hit == { i \in DOMAIN Rules : KeyRegex(Rules[i].key, line).some }
        r1  == IF hit # {}
               THEN LET i == CHOOSE i \in hit : \A j \in hit : i <= j
                    IN  [r EXCEPT ![Rules[i].field] = KeyRegex(Rules[i].key, line).value]
               ELSE r
        cap == ExtraRegex(line)
    IN  IF cap.some
        THEN [r1 EXCEPT !.extra = MapInsert(r1.extra, cap.key, cap.value)]
        ELSE r1

\* parse_os_release_line!: the first rule whose regex matches assigns its
\* field and `continue`s; otherwise the generic regex inserts into extra.
ProcessLine(r, line) ==
    LET hit == { i \in DOMAIN Rules : KeyRegex(Rules[i].key, line).some }
    IN  IF hit # {}
        THEN LET i == CHOOSE i \in hit : \A j \in hit : i <= j
             IN  [r EXCEPT ![Rules[i].field] = KeyRegex(Rules[i].key, line).value]
        ELSE LET cap == ExtraRegex(line)
             IN  IF cap.some
                 THEN [r EXCEPT !.extra = MapInsert(r.extra, cap.key, cap.value)]
                 ELSE r

---------------------------------------------------------------------------
(* The lines the iterator can yield *)

K_FOO   == <<"F","O","O">>
K_NAMES == <<"N","A","M","E","S">>

\* Keys that are runs of word characters, recognized or not
Keys == RecognizedKeys \cup {K_FOO, K_NAMES}

\* Non-empty values without a double-quote
Values == { <<"a">>, <<"b"," ","=","c">> }

Assign(K, v)          == K \o <<"=">> \o v
AssignQuoted(K, v)    == K \o <<"=", Quote>> \o v \o <<Quote>>
AssignOpenQuote(K, v) == K \o <<"=", Quote>> \o v
AssignEmpty(K)        == K \o <<"=">>
AssignEmptyQuoted(K)  == K \o <<"=", Quote, Quote>>
AssignLoneQuote(K)    == K \o <<"=", Quote>>
AssignInnerQuote(K, v, w) == K \o <<"=">> \o v \o <<Quote>> \o w
Indented(l)           == <<" ">> \o l
Trailing(l)           == l \o <<" ">>
Commented(l)          == <<"#">> \o l
TextBefore(l)         == <<"x", " ">> \o l

\* Keys every line shape is built for; the other keys get `K=a` only
ShapedKeys == {K_NAME, K_FOO}

Lines ==
    UNION { { Assign(K, <<"a">>), AssignQuoted(K, <<"a">>),
              AssignOpenQuote(K, <<"a">>) } : K \in Keys }
    \cup UNION { { Assign(K, v), AssignQuoted(K, v), AssignOpenQuote(K, v) } :
                   K \in ShapedKeys, v \in Values }
    \cup UNION { { AssignEmpty(K), AssignEmptyQuoted(K), AssignLoneQuote(K),
                   AssignInnerQuote(K, <<"a">>, <<"c">>),
                   Indented(Assign(K, <<"a">>)), Trailing(Assign(K, <<"a">>)),
                   Commented(Assign(K, <<"a">>)), TextBefore(Assign(K, <<"a">>)),
                   K } : K \in ShapedKeys }
    \cup { <<>>, <<"#"," ","c">> }

---------------------------------------------------------------------------
(* OsRelease::from_iter on a line sequence *)

Init ==
    /\ pc = "iter"
    /\ os_release = Default
    /\ seen = <<>>
    /\ result = "none"
    /\ opened = FALSE
    /\ readErrors = 0

\* one pass of the loop body over the next line of the iterator
FromIterStep ==
    /\ pc = "iter"
    /\ Len(seen) < MaxLines
    /\ \E line \in Lines :
         /\ os_release' = ProcessLine(os_release, line)
         /\ seen' = Append(seen, line)
    /\ UNCHANGED <<pc, result, opened, readErrors>>

\* the iterator is exhausted: `os_release` is returned
FromIterReturn ==
    /\ pc = "iter"
    /\ pc' = "returned"
    /\ UNCHANGED <<os_release, seen, result, opened, readErrors>>

Next ==
    \/ FromIterStep
    \/ FromIterReturn

Spec == Init /\ [][Next]_vars

---------------------------------------------------------------------------
(* OsRelease::new and OsRelease::from_file *)

InitFile ==
    /\ pc = "open"
    /\ os_release = Default
    /\ seen = <<>>
    /\ result = "none"
    /\ opened = FALSE
    /\ readErrors = 0

\* File::open(path)? fails: the error is returned
OpenErr ==
    /\ pc = "open"
    /\ pc' = "returned"
    /\ result' = "Err"
    /\ UNCHANGED <<os_release, seen, opened, readErrors>>

\* File::open(path)? succeeds: from_iter starts on file.lines().flat_map(..)
OpenOk ==
    /\ pc = "open"
    /\ pc' = "lines"
    /\ opened' = TRUE
    /\ UNCHANGED <<os_release, seen, result, readErrors>>

\* lines() yields Ok(line): flat_map passes the line on to the loop body
ReadLineOk ==
    /\ pc = "lines"
    /\ Len(seen) < MaxLines
    /\ \E line \in Lines :
         /\ os_release' = ProcessLine(os_release, line)
         /\ seen' = Append(seen, line)
    /\ UNCHANGED <<pc, result, opened, readErrors>>

\* lines() yields Err(e): flat_map over a Result yields nothing for it, so
\* the error is dropped and the loop asks for the next item
ReadLineErr ==
    /\ pc = "lines"
    /\ readErrors < MaxReadErrors
    /\ readErrors' = readErrors + 1
    /\ UNCHANGED <<pc, os_release, seen, result, opened>>

\* lines() yields None: from_iter returns and the wrapper returns Ok(record)
ReadEof ==
    /\ pc = "lines"
    /\ pc' = "returned"
    /\ result' = "Ok"
    /\ UNCHANGED <<os_release, seen, opened, readErrors>>

NextFile ==
    \/ OpenErr
    \/ OpenOk
    \/ ReadLineOk
    \/ ReadLineErr
    \/ ReadEof

SpecFile == InitFile /\ [][NextFile]_vars

---------------------------------------------------------------------------
(* Properties *)

\* the step consumed a line
Stepped == Len(seen') = Len(seen) + 1

\* the line most recently consumed
LastLine == seen[Len(seen)]

NoQuoteIn(v) == \A i \in 1..Len(v) : v[i] # Quote

\* C1: after any sequence of lines, and in every intermediate state, no key
\* of `extra` is one of the eleven recognized key names.
C1_ExtraHasNoRecognizedKey ==
    \A K \in RecognizedKeys : K \notin DOMAIN os_release.extra

\* C2: last write wins: each recognized field holds the value captured from
\* the last consumed line that matches its key's pattern, and is empty when
\* no consumed line matches it.
C2_LastWriteWins ==
    \A i \in DOMAIN Rules :
        LET hits == { n \in 1..Len(seen) : KeyRegex(Rules[i].key, seen[n]).some }
        IN  IF hits = {}
            THEN os_release[Rules[i].field] = <<>>
            ELSE LET n == CHOOSE n \in hits : \A m \in hits : m <= n
                 IN  os_release[Rules[i].field] = KeyRegex(Rules[i].key, seen[n]).value

\* NAME=a then NAME="b =c": the second value is the one kept
C2_Witness ==
    /\ seen = << Assign(K_NAME, <<"a">>), AssignQuoted(K_NAME, <<"b"," ","=","c">>) >>
    /\ os_release.name = <<"b"," ","=","c">>

\* C3: a line matching a recognized-key pattern matches no other recognized
\* pattern, sets exactly that key's field to the captured value, and leaves
\* `extra` and the other ten fields as they were.
C3_MutualExclusion ==
    [][ Stepped =>
          \A i \in DOMAIN Rules :
              KeyRegex(Rules[i].key, LastLine').some =>
                  /\ \A j \in DOMAIN Rules \ {i} : ~KeyRegex(Rules[j].key, LastLine').some
                  /\ os_release'[Rules[i].field] = KeyRegex(Rules[i].key, LastLine').value
                  /\ \A f \in Fields \ {Rules[i].field} : os_release'[f] = os_release[f]
                  /\ os_release'.extra = os_release.extra ]_vars

\* FOO=a then ID="a": id is set, extra still holds only FOO
C3_Witness ==
    /\ seen = << Assign(K_FOO, <<"a">>), AssignQuoted(K_ID, <<"a">>) >>
    /\ os_release.id = <<"a">>
    /\ DOMAIN os_release.extra = {K_FOO}

\* C4: a line `K=`, `K=""` or `K="` leaves the eleven fields and `extra`
\* exactly as they were, for recognized and unrecognized K alike.
C4_EmptyValueIgnored ==
    [][ ( /\ Stepped
          /\ \E K \in Keys :
                LastLine' \in {AssignEmpty(K), AssignEmptyQuoted(K), AssignLoneQuote(K)} )
        => os_release' = os_release ]_vars

\* NAME=a then NAME=": name is still a
C4_Witness ==
    /\ seen = << Assign(K_NAME, <<"a">>), AssignLoneQuote(K_NAME) >>
    /\ os_release.name = <<"a">>

\* C5: for a recognized key K and a non-empty quote-free value v, the lines
\* K="v", K=v and K="v each leave v, without any quote, in K's field.
C5_QuoteStripping ==
    Len(seen) > 0 =>
        \A i \in DOMAIN Rules : \A v \in Values :
            LastLine \in { Assign(Rules[i].key, v), AssignQuoted(Rules[i].key, v),
                           AssignOpenQuote(Rules[i].key, v) }
            => os_release[Rules[i].field] = v

\* VERSION="a (opening quote only) stores a
C5_Witness ==
    /\ Len(seen) > 0
    /\ LastLine = AssignOpenQuote(K_VERSION, <<"a">>)
    /\ os_release.version = <<"a">>

\* C6: a line K=v or K="v" with K a word-character key that is not
\* recognized and v non-empty and quote-free makes extra[K] = v, overwriting
\* an earlier value, adds no other key, changes no other entry and changes
\* no recognized field.
C6_UnknownKeyRouting ==
    [][ Stepped =>
          \A K \in Keys \ RecognizedKeys : \A v \in Values :
              LastLine' \in { Assign(K, v), AssignQuoted(K, v) } =>
                  /\ DOMAIN os_release'.extra = DOMAIN os_release.extra \cup {K}
                  /\ os_release'.extra[K] = v
                  /\ \A x \in DOMAIN os_release.extra \ {K} :
                        os_release'.extra[x] = os_release.extra[x]
                  /\ \A f \in Fields : os_release'[f] = os_release[f] ]_vars

\* FOO=a then FOO="b =c": the entry for FOO is overwritten
C6_Witness ==
    /\ seen = << Assign(K_FOO, <<"a">>), AssignQuoted(K_FOO, <<"b"," ","=","c">>) >>
    /\ DOMAIN os_release.extra = {K_FOO}
    /\ os_release.extra[K_FOO] = <<"b"," ","=","c">>

\* C7: a line made of leading whitespace and a recognized-key assignment
\* leaves the eleven fields and `extra` exactly as they were.
C7_IndentedIgnored ==
    [][ ( /\ Stepped
          /\ \E K \in RecognizedKeys : \E v \in Values :
                LastLine' = Indented(Assign(K, v)) )
        => os_release' = os_release ]_vars

\* C8: a line whose first character is # leaves the eleven fields and
\* `extra` unchanged, whatever follows the #.
C8_CommentIgnored ==
    [][ ( /\ Stepped
          /\ Len(LastLine') > 0
          /\ LastLine'[1] = "#" )
        => os_release' = os_release ]_vars

\* C9: new / from_file return an error whenever the open failed or a read
\* of the opened file failed, and return Ok only when the file was opened
\* and every read succeeded.
C9_ReadFailureIsError ==
    pc = "returned" =>
        /\ (~opened \/ readErrors > 0) => result = "Err"
        /\ result = "Ok" => (opened /\ readErrors = 0)

\* C10: every recognized field is empty or a non-empty string without a
\* double-quote; every value of `extra` is non-empty and without a
\* double-quote; every key of `extra` is a non-empty run of word characters;
\* and a later line never empties a set field nor removes a key of `extra`.
C10_StoredValues ==
    /\ \A f \in Fields : NoQuoteIn(os_release[f])
    /\ \A k \in DOMAIN os_release.extra :
          /\ Len(os_release.extra[k]) > 0
          /\ NoQuoteIn(os_release.extra[k])
          /\ Len(k) > 0
          /\ \A i \in 1..Len(k) : IsWordChar(k[i])

C10_NeverUnset ==
    /\ \A f \in Fields : os_release[f] # <<>> => os_release'[f] # <<>>
    /\ DOMAIN os_release.extra \subseteq DOMAIN os_release'.extra

C10_StoredValueInvariant == []C10_StoredValues /\ [][C10_NeverUnset]_vars

\* NAME="a" then FOO=a"c: name and extra[FOO] are both a, no quote kept
C10_Witness ==
    /\ seen = << AssignQuoted(K_NAME, <<"a">>), AssignInnerQuote(K_FOO, <<"a">>, <<"c">>) >>
    /\ os_release.name = <<"a">>
    /\ os_release.extra[K_FOO] = <<"a">>

===========================================================================
